---- MODULE Spec2Model ----
(***************************************************************************)
(* ScreenshotApp (src/screen_capture_app.py): the shared AppState record,  *)
(* the request handlers of RequestHandler.do_GET, the manual_capture       *)
(* threads started by the hotkey and by /api/capture, and the              *)
(* auto_monitor_loop threads started by start_capture.                     *)
(*                                                                         *)
(* Time is counted in ticks of 0.1 s.  The code uses time.time() only in   *)
(* the difference of line 392 and in time.sleep(), so a timestamp is kept  *)
(* as the number of ticks elapsed since it was taken and a sleep as the    *)
(* number of ticks it still has to last; Tick advances both.               *)
(***************************************************************************)
EXTENDS Integers, Sequences, FiniteSets, TLC

\* ------------------------------------------------------------------ values

\* Python's None in an integer-valued field.
None == -1
\* state.region = None.
NoRegion == << >>
\* A frame: an RGB image of size <<w, h>> in which the first lit[c] samples of
\* band c (1: R, 2: G, 3: B) are 255 and all the others 0.
Frame(w, h, r, g, b) == [size |-> <<w, h>>, lit |-> <<r, g, b>>]
\* state.last_image = None, and a do_capture() that returns None.
NoImage == Frame(0, 0, 0, 0, 0)
\* The pasteboard before the program has copied a slide to it.
NoClip == << >>
\* No timed run: no clock, no starting counter, no starting frame.
NoScenario == [t |-> None, count |-> None, first |-> NoImage]

\* Bounds of the model.
MaxManual == 2
MaxLoops == 2
MaxCount == 3

\* Program constants, in ticks of 0.1 s.
SettleDefault == 5
PollDefault == 2
RetrySleep == 10

\* Window ids get_window_list() enumerates, and the ids a request may carry
\* (0: the id parameter is absent or 0; 3: a window that is not enumerable).
Windows == {1, 2}
WindowReq == 0 .. 3

\* mode= parameter values of /api/capture_mode, /api/mode and /api/save_mode:
\* the handlers take any string, "bogus" stands for every other one.
CaptureModeReq == {"window", "region", "bogus"}
ModeReq == {"manual", "auto", "bogus"}
SaveModeReq == {"folder", "clipboard", "both", "bogus"}

\* Rectangles: the defaults of /api/toggle (rx, ry, rw, rh) and one result of
\* the interactive selection.
ToggleRegion == <<100, 100, 800, 600>>
SelectedRegion == <<10, 20, 300, 200>>

\* Save directories: the default one and one a request or the picker names.
DefaultDir == "desktop"
Dirs == {"desktop", "other"}

\* Frames do_capture can return: 20 x 10 pixels, 600 samples.
Frames == {Frame(20, 10, 0, 0, 0), Frame(20, 10, 4, 0, 0)}

VARIABLES
    capture_mode,          \* AppState.capture_mode
    target_window_id,      \* AppState.target_window_id (None or an id)
    region,                \* AppState.region (NoRegion or <<x, y, w, h>>)
    save_dir,              \* AppState.save_dir
    save_mode,             \* AppState.save_mode
    is_running,            \* AppState.is_running
    capture_count,         \* AppState.capture_count
    mode,                  \* AppState.mode
    last_image,            \* AppState.last_image
    change_detected_time,  \* AppState.change_detected_time: None, or the ticks
                           \* elapsed since time.time() was stored (line 389)
    status,                \* AppState.status
    settling_time,         \* AppState.settling_time, in ticks
    polling_interval,      \* AppState.polling_interval, in ticks
    files,                 \* the slide_*.png files of each directory
    clipboard,             \* the pasteboard: the slide last copied to it
    mpc, mloc,             \* manual_capture threads: position, count read
    lpc, lcur, lloc, lwake,\* auto_monitor_loop threads: position,
                           \* current_image, count read, ticks left to sleep
    req,                   \* history: the path of the last request handled
    settled,               \* history: save_image calls of the polling loops
                           \* since a change was last detected (line 389)
    scenario               \* history: the clock of a timed run, the counter
                           \* and the frame it started with (NoScenario
                           \* when time is not being measured)

ctl == <<capture_mode, target_window_id, region, save_dir, save_mode,
         is_running, mode, settling_time, polling_interval>>
shared == <<capture_count, last_image, change_detected_time, status, files, clipboard>>
mthreads == <<mpc, mloc>>
lthreads == <<lpc, lcur, lloc, lwake>>
hist == <<req, settled, scenario>>
vars == <<ctl, shared, mthreads, lthreads, hist>>

Manual == 1 .. MaxManual
Loops == 1 .. MaxLoops

\* ------------------------------------------------------------ file names

\* A file name slide_<rest>.png is kept as <rest>, a sequence of characters:
\* 0..9 the digits, 10 the underscore, 11 a letter, 12 the minus sign.
Underscore == 10
Letter == 11
Minus == 12

RECURSIVE DecimalDigits(_)
\* str(n) for n >= 0, as digits.
DecimalDigits(n) ==
    IF n < 10 THEN <<n>> ELSE Append(DecimalDigits(n \div 10), n % 10)

RECURSIVE ZeroPad(_, _)
ZeroPad(s, width) == IF Len(s) >= width THEN s ELSE ZeroPad(<<0>> \o s, width)

\* f"{n:04d}" (line 328).
Format04(n) == ZeroPad(DecimalDigits(n), 4)

\* f.stem.split("_")[1] of the stem "slide_" + rest: rest up to its first "_".
RECURSIVE FirstField(_)
FirstField(rest) ==
    IF rest = << >> \/ Head(rest) = Underscore THEN << >>
    ELSE <<Head(rest)>> \o FirstField(Tail(rest))

IsDigits(s) == Len(s) > 0 /\ \A i \in 1 .. Len(s) : s[i] \in 0 .. 9

RECURSIVE DigitsValue(_)
DigitsValue(s) ==
    IF s = << >> THEN 0 ELSE 10 * DigitsValue(SubSeq(s, 1, Len(s) - 1)) + s[Len(s)]

\* int(text) succeeds on digits with an optional sign (line 289).
IntParses(s) ==
    \/ IsDigits(s)
    \/ Len(s) > 1 /\ s[1] = Minus /\ IsDigits(Tail(s))

IntValue(s) == IF s[1] = Minus THEN 0 - DigitsValue(Tail(s)) ELSE DigitsValue(s)

Max2(a, b) == IF a >= b THEN a ELSE b

RECURSIVE ScanMax(_, _)
\* The loop of lines 287-292 over the files of a directory.
ScanMax(names, acc) ==
    IF names = {} THEN acc
    ELSE LET f == CHOOSE x \in names : TRUE
             field == FirstField(f)
         IN ScanMax(names \ {f},
                    IF IntParses(field) THEN Max2(acc, IntValue(field)) ELSE acc)

\* A seeding that counts the files instead of taking the largest number.
init_capture_count_size(names) == Cardinality(names)

\* init_capture_count(): the count it leaves for a directory's files.
init_capture_count(names) == ScanMax(names, 0)

\* --------------------------------------------------------------- helpers

\* Truth value of state.target_window_id and of state.region (lines 355-371,
\* 402-405): None and 0 are false, a 4-tuple is true.
HasWindow == target_window_id # None /\ target_window_id # 0
HasRegion(r) == r # NoRegion

\* Slot i is the lowest free thread slot.
IsFreeSlot(pc, idle, slots, i) ==
    pc[i] = idle /\ \A j \in slots : pc[j] = idle => i <= j

\* --------------------------------------------------------------- startup

\* The directories as the program finds them: slide_0001.png in the default
\* directory, nothing in the other.
InitialFiles == [d \in Dirs |-> IF d = DefaultDir THEN {Format04(1)} ELSE {}]

\* AppState's defaults (lines 62-79) over the directories fs, with the
\* counter at count and the request history at path.
AppState(fs, count, path) ==
    /\ capture_mode = "window"
    /\ target_window_id = None
    /\ region = NoRegion
    /\ save_dir = DefaultDir
    /\ save_mode = "folder"
    /\ is_running = FALSE
    /\ mode = "manual"
    /\ last_image = NoImage
    /\ change_detected_time = None
    /\ status = "stopped"
    /\ settling_time = SettleDefault
    /\ polling_interval = PollDefault
    /\ files = fs
    /\ clipboard = NoClip
    /\ capture_count = count
    /\ mpc = [i \in Manual |-> "idle"]
    /\ mloc = [i \in Manual |-> None]
    /\ lpc = [j \in Loops |-> "dead"]
    /\ lcur = [j \in Loops |-> NoImage]
    /\ lloc = [j \in Loops |-> None]
    /\ lwake = [j \in Loops |-> 0]
    /\ req = path
    /\ settled = 0
    /\ scenario = NoScenario

\* main() has run to serve_forever (lines 909-931).
InitState(fs) == AppState(fs, init_capture_count(fs[DefaultDir]), "none")

Init == InitState(InitialFiles)

\* ------------------------------------------------------ request handlers
\* HTTPServer (line 930) serves one request at a time: a handler never
\* interleaves with another handler, only with the capture threads.

\* A /api/select_window that takes the id without looking it up.
ApiSelectWindow_unlisted(wid) ==
    /\ req' = "/api/select_window"
    /\ UNCHANGED <<settled, scenario>>
    /\ target_window_id' = wid
    /\ status' = "selected"
    /\ UNCHANGED <<capture_mode, region, save_dir, save_mode, is_running, mode,
                   settling_time, polling_interval>>
    /\ UNCHANGED <<capture_count, last_image, change_detected_time, files, clipboard>>
    /\ UNCHANGED <<mthreads, lthreads>>

\* /api/select_window?id=wid (lines 780-794).
ApiSelectWindow(wid) ==
    /\ req' = "/api/select_window"
    /\ UNCHANGED <<settled, scenario>>
    /\ IF wid # 0 /\ wid \in Windows
       THEN /\ target_window_id' = wid
            /\ status' = "selected"
       ELSE UNCHANGED <<target_window_id, status>>
    /\ UNCHANGED <<capture_mode, region, save_dir, save_mode, is_running, mode,
                   settling_time, polling_interval>>
    /\ UNCHANGED <<capture_count, last_image, change_detected_time, files, clipboard>>
    /\ UNCHANGED <<mthreads, lthreads>>

\* /api/capture_mode?mode=m (lines 809-813).
ApiCaptureMode(m) ==
    /\ req' = "/api/capture_mode"
    /\ UNCHANGED <<settled, scenario>>
    /\ capture_mode' = IF ~is_running THEN m ELSE capture_mode
    /\ UNCHANGED <<target_window_id, region, save_dir, save_mode, is_running,
                   mode, settling_time, polling_interval>>
    /\ UNCHANGED <<shared, mthreads, lthreads>>

\* /api/select_region (lines 815-818) with interactive_select_region
\* (lines 206-256): the selection yields a rectangle, or nothing (cancelled).
ApiSelectRegion(r) ==
    /\ req' = "/api/select_region"
    /\ UNCHANGED <<settled, scenario>>
    /\ IF r # NoRegion
       THEN /\ region' = r
            /\ capture_mode' = "region"
            /\ status' = "region_selected"
       ELSE UNCHANGED <<region, capture_mode, status>>
    /\ UNCHANGED <<target_window_id, save_dir, save_mode, is_running, mode,
                   settling_time, polling_interval>>
    /\ UNCHANGED <<capture_count, last_image, change_detected_time, files, clipboard>>
    /\ UNCHANGED <<mthreads, lthreads>>

\* Mutant of ApiMode: the is_running guard of line 821 is missing.
ApiMode_unguarded(m) ==
    /\ req' = "/api/mode"
    /\ UNCHANGED <<settled, scenario>>
    /\ mode' = m
    /\ UNCHANGED <<capture_mode, target_window_id, region, save_dir, save_mode,
                   is_running, settling_time, polling_interval>>
    /\ UNCHANGED <<shared, mthreads, lthreads>>

\* /api/mode?mode=m (lines 820-824).
ApiMode(m) ==
    /\ req' = "/api/mode"
    /\ UNCHANGED <<settled, scenario>>
    /\ mode' = IF ~is_running THEN m ELSE mode
    /\ UNCHANGED <<capture_mode, target_window_id, region, save_dir, save_mode,
                   is_running, settling_time, polling_interval>>
    /\ UNCHANGED <<shared, mthreads, lthreads>>

\* /api/save_mode?mode=m (lines 826-832).
ApiSaveMode(m) ==
    /\ req' = "/api/save_mode"
    /\ UNCHANGED <<settled, scenario>>
    /\ save_mode' = IF ~is_running /\ m \in {"folder", "clipboard", "both"}
                    THEN m ELSE save_mode
    /\ UNCHANGED <<capture_mode, target_window_id, region, save_dir,
                   is_running, mode, settling_time, polling_interval>>
    /\ UNCHANGED <<shared, mthreads, lthreads>>

\* /api/reset (lines 865-868).
ApiReset ==
    /\ req' = "/api/reset"
    /\ UNCHANGED <<settled, scenario>>
    /\ capture_count' = 0
    /\ UNCHANGED <<last_image, change_detected_time, status, files, clipboard>>
    /\ UNCHANGED <<ctl, mthreads, lthreads>>

\* /api/select_folder (lines 877-888): the picker names a directory, or is
\* cancelled (picked = FALSE); a named directory is scanned by
\* init_capture_count.
ApiSelectFolder(picked, d) ==
    /\ req' = "/api/select_folder"
    /\ UNCHANGED <<settled, scenario>>
    /\ IF picked
       THEN /\ save_dir' = d
            /\ capture_count' = init_capture_count(files[d])
       ELSE UNCHANGED <<save_dir, capture_count>>
    /\ UNCHANGED <<capture_mode, target_window_id, region, save_mode,
                   is_running, mode, settling_time, polling_interval>>
    /\ UNCHANGED <<last_image, change_detected_time, status, files, clipboard>>
    /\ UNCHANGED <<mthreads, lthreads>>

\* A stop that also clears the counter and the target.
stop_capture_clearing ==
    /\ is_running' = FALSE
    /\ status' = "stopped"
    /\ capture_count' = 0
    /\ target_window_id' = None
    /\ UNCHANGED <<capture_mode, region, save_dir, save_mode,
                   mode, settling_time, polling_interval>>
    /\ UNCHANGED <<last_image, change_detected_time, files, clipboard>>
    /\ UNCHANGED <<mthreads, lthreads>>

\* stop_capture() (lines 424-427).
stop_capture ==
    /\ is_running' = FALSE
    /\ status' = "stopped"
    /\ UNCHANGED <<capture_mode, target_window_id, region, save_dir, save_mode,
                   mode, settling_time, polling_interval>>
    /\ UNCHANGED <<capture_count, last_image, change_detected_time, files, clipboard>>
    /\ UNCHANGED <<mthreads, lthreads>>

\* start_capture() (lines 401-421) called with region r in place: what it
\* does to is_running, status, last_image, change_detected_time and the
\* polling threads.  Line 410 raises TypeError when capture_mode is not
\* "window" and the region is None; /api/toggle catches it (line 850) after
\* line 408 has run.
start_capture(r) ==
    IF capture_mode = "window" /\ ~HasWindow
    THEN /\ status' = "err_select_window"
         /\ UNCHANGED <<is_running, last_image, change_detected_time, lthreads>>
    ELSE IF capture_mode = "region" /\ ~HasRegion(r)
    THEN /\ status' = "err_select_region"
         /\ UNCHANGED <<is_running, last_image, change_detected_time, lthreads>>
    ELSE /\ is_running' = TRUE
         /\ IF capture_mode # "window" /\ r = NoRegion
            THEN UNCHANGED <<status, last_image, change_detected_time, lthreads>>
            ELSE IF mode = "manual"
            THEN /\ status' = "armed"
                 /\ UNCHANGED <<last_image, change_detected_time, lthreads>>
            ELSE /\ last_image' = NoImage
                 /\ change_detected_time' = None
                 /\ \E j \in Loops :
                       /\ IsFreeSlot(lpc, "dead", Loops, j)
                       /\ lpc' = [lpc EXCEPT ![j] = "while"]
                 /\ UNCHANGED <<lcur, lloc, lwake>>
                 /\ status' = "monitoring"

\* /api/toggle (lines 834-853).  d, st, pi, rg are the saveDir, settlingTime,
\* pollingInterval and rx..rh parameters; bad names the parameter whose
\* float() or int() conversion raises ("none": all convert), which ends the
\* handler in the except clause of line 850.
ApiToggle(d, st, pi, rg, bad) ==
    /\ req' = "/api/toggle"
    /\ UNCHANGED <<settled, scenario>>
    /\ IF is_running THEN stop_capture
       ELSE
         /\ save_dir' = d
         /\ settling_time' = IF bad = "settling" THEN settling_time ELSE st
         /\ polling_interval' =
                IF bad \in {"settling", "polling"} THEN polling_interval ELSE pi
         /\ LET raised == \/ bad \in {"settling", "polling"}
                          \/ bad = "region" /\ capture_mode = "region"
                r == IF capture_mode = "region" /\ ~raised THEN rg ELSE region
            IN /\ region' = r
               /\ IF ~raised
                  THEN start_capture(r)
                  ELSE UNCHANGED <<is_running, status, last_image,
                                   change_detected_time, lthreads>>
         /\ UNCHANGED <<capture_mode, target_window_id, save_mode, mode>>
         /\ UNCHANGED <<capture_count, files, clipboard, mthreads>>

\* ------------------------------------------------------- change detector

\* DIFF_THRESHOLD = 0.5 (line 83), in tenths of a percent.
DIFF_THRESHOLD_X10 == 5

Abs(x) == IF x < 0 THEN 0 - x ELSE x

\* diff.histogram() of an RGB image is the three bands' 256-entry histograms
\* one after the other, so entries 1..255 (line 300) are the non-zero
\* differences of the first band.
NonZero(img1, img2) == Abs(img1.lit[1] - img2.lit[1])

\* images_different (lines 295-301):
\* (non_zero / (width * height * 3)) * 100 > DIFF_THRESHOLD.
images_different(img1, img2) ==
    IF img1.size # img2.size THEN TRUE
    ELSE NonZero(img1, img2) * 1000
             > DIFF_THRESHOLD_X10 * (img1.size[1] * img1.size[2] * 3)

\* ---------------------------------------------------- capture and persist

\* do_capture() (lines 353-359) can return img: a frame when the target of
\* the current capture mode is set (capture_window and capture_region may
\* still return None), None otherwise.
do_capture(img) ==
    \/ img = NoImage
    \/ img \in Frames /\ capture_mode = "window" /\ HasWindow
    \/ img \in Frames /\ capture_mode = "region" /\ HasRegion(region)

\* save_image after line 327 (lines 328-350): the file name is formatted from
\* the counter as it is now; wrote = FALSE is an image.save() that raises,
\* which skips the rest of the try block; copied is copy_to_clipboard's result.
save_files(wrote, copied) ==
    LET filename == Format04(capture_count)
        folder == save_mode \in {"folder", "both"}
        clip == save_mode \in {"clipboard", "both"}
    IN IF folder /\ ~wrote
       THEN UNCHANGED <<files, clipboard, status>>
       ELSE /\ files' = IF folder
                        THEN [files EXCEPT ![save_dir] = @ \cup {filename}]
                        ELSE files
            /\ clipboard' = IF clip /\ copied THEN filename ELSE clipboard
            /\ status' = IF clip /\ ~copied THEN "saved_copy_failed" ELSE "saved"

\* ------------------------------------------------- manual_capture threads

\* keyboard_callback (lines 432-440) and /api/capture (lines 855-858) start a
\* thread on manual_capture.
SpawnManual ==
    /\ \E i \in Manual :
          /\ IsFreeSlot(mpc, "idle", Manual, i)
          /\ mpc' = [mpc EXCEPT ![i] = "check"]
    /\ UNCHANGED <<mloc, ctl, shared, lthreads, settled, scenario>>

\* /api/capture (lines 855-858).
ApiCapture == SpawnManual /\ req' = "/api/capture"

\* keyboard_callback (lines 432-440) on Cmd+Ctrl+S.
keyboard_callback == SpawnManual /\ UNCHANGED req

\* A manual_capture without the tests of lines 363-371.
ManualCheck_untested(i) ==
    /\ mpc[i] = "check"
    /\ mpc' = [mpc EXCEPT ![i] = "capture"]
    /\ UNCHANGED <<mloc, ctl, shared, lthreads, hist>>

\* manual_capture, lines 363-371.
ManualCheck(i) ==
    /\ mpc[i] = "check"
    /\ IF ~is_running
       THEN status' = "err_not_started" /\ mpc' = [mpc EXCEPT ![i] = "idle"]
       ELSE IF capture_mode = "window" /\ ~HasWindow
       THEN status' = "err_no_window" /\ mpc' = [mpc EXCEPT ![i] = "idle"]
       ELSE IF capture_mode = "region" /\ ~HasRegion(region)
       THEN status' = "err_no_region" /\ mpc' = [mpc EXCEPT ![i] = "idle"]
       ELSE UNCHANGED status /\ mpc' = [mpc EXCEPT ![i] = "capture"]
    /\ UNCHANGED <<capture_count, last_image, change_detected_time, files, clipboard>>
    /\ UNCHANGED <<mloc, ctl, lthreads, hist>>

\* manual_capture, lines 372-377: do_capture returns.
ManualCapture(i, img) ==
    /\ mpc[i] = "capture"
    /\ do_capture(img)
    /\ IF img # NoImage
       THEN UNCHANGED status /\ mpc' = [mpc EXCEPT ![i] = "save"]
       ELSE status' = "err_capture_failed" /\ mpc' = [mpc EXCEPT ![i] = "idle"]
    /\ UNCHANGED <<capture_count, last_image, change_detected_time, files, clipboard>>
    /\ UNCHANGED <<mloc, ctl, lthreads, hist>>

\* save_image, line 327: state.capture_count += 1 reads the counter ...
ManualSaveRead(i) ==
    /\ mpc[i] = "save"
    /\ capture_count < MaxCount
    /\ mloc' = [mloc EXCEPT ![i] = capture_count]
    /\ mpc' = [mpc EXCEPT ![i] = "inc"]
    /\ UNCHANGED <<ctl, shared, lthreads, hist>>

\* ... and stores the sum.
ManualSaveWrite(i) ==
    /\ mpc[i] = "inc"
    /\ capture_count' = mloc[i] + 1
    /\ mloc' = [mloc EXCEPT ![i] = None]
    /\ mpc' = [mpc EXCEPT ![i] = "persist"]
    /\ UNCHANGED <<last_image, change_detected_time, status, files, clipboard>>
    /\ UNCHANGED <<ctl, lthreads, hist>>

\* A save_image that takes the increment back when the folder write or the
\* clipboard write fails.
ManualPersist_rollback(i, wrote, copied) ==
    /\ mpc[i] = "persist"
    /\ save_files(wrote, copied)
    /\ mpc' = [mpc EXCEPT ![i] = "idle"]
    /\ capture_count' = IF wrote /\ copied THEN capture_count ELSE capture_count - 1
    /\ UNCHANGED <<last_image, change_detected_time>>
    /\ UNCHANGED <<mloc, ctl, lthreads, hist>>

\* save_image, lines 328-350, and the return of manual_capture.
ManualPersist(i, wrote, copied) ==
    /\ mpc[i] = "persist"
    /\ save_files(wrote, copied)
    /\ mpc' = [mpc EXCEPT ![i] = "idle"]
    /\ UNCHANGED <<capture_count, last_image, change_detected_time>>
    /\ UNCHANGED <<mloc, ctl, lthreads, hist>>

\* ----------------------------------------------- auto_monitor_loop threads

\* The elapsed time kept for change_detected_time stops growing at the
\* largest settling time a request sets.
MaxElapsed == SettleDefault
\* The clock of a timed run stops at MaxClock ticks.
MaxClock == 14

\* Line 381: the loop condition.
LoopWhile(j) ==
    /\ lpc[j] = "while"
    /\ lpc' = [lpc EXCEPT ![j] = IF is_running /\ mode = "auto"
                                 THEN "capture" ELSE "dead"]
    /\ UNCHANGED <<lcur, lloc, lwake, ctl, shared, mthreads, hist>>

\* A capture that forgets the stored frame and the change timestamp when
\* do_capture returns None.
LoopCapture_forgetful(j, img) ==
    /\ lpc[j] = "capture"
    /\ do_capture(img)
    /\ IF img = NoImage
       THEN /\ lpc' = [lpc EXCEPT ![j] = "retry"]
            /\ lwake' = [lwake EXCEPT ![j] = RetrySleep]
            /\ last_image' = NoImage
            /\ change_detected_time' = None
            /\ UNCHANGED lcur
       ELSE /\ lpc' = [lpc EXCEPT ![j] = "compare"]
            /\ lcur' = [lcur EXCEPT ![j] = img]
            /\ UNCHANGED <<lwake, last_image, change_detected_time>>
    /\ UNCHANGED <<capture_count, status, files, clipboard>>
    /\ UNCHANGED <<lloc, ctl, mthreads, hist>>

\* Lines 383-386: do_capture returns; None sleeps a second and continues.
LoopCapture(j, img) ==
    /\ lpc[j] = "capture"
    /\ do_capture(img)
    /\ IF img = NoImage
       THEN /\ lpc' = [lpc EXCEPT ![j] = "retry"]
            /\ lwake' = [lwake EXCEPT ![j] = RetrySleep]
            /\ UNCHANGED lcur
       ELSE /\ lpc' = [lpc EXCEPT ![j] = "compare"]
            /\ lcur' = [lcur EXCEPT ![j] = img]
            /\ UNCHANGED lwake
    /\ UNCHANGED <<lloc, ctl, shared, mthreads, hist>>

\* Lines 396-398: an exception raised in the body is caught, the frame is
\* dropped and the thread sleeps.
LoopRaise(j) ==
    /\ lpc' = [lpc EXCEPT ![j] = "sleep"]
    /\ lcur' = [lcur EXCEPT ![j] = NoImage]
    /\ lwake' = [lwake EXCEPT ![j] = polling_interval]

\* A test of last_image that saves the first frame of a session.
LoopCompare_first(j) ==
    /\ lpc[j] = "compare"
    /\ lpc' = [lpc EXCEPT ![j] = IF last_image # NoImage THEN "differ" ELSE "save"]
    /\ UNCHANGED <<lcur, lloc, lwake, ctl, shared, mthreads, hist>>

\* Line 387: the test of last_image.
LoopCompare(j) ==
    /\ lpc[j] = "compare"
    /\ lpc' = [lpc EXCEPT ![j] = IF last_image # NoImage THEN "differ" ELSE "store"]
    /\ UNCHANGED <<lcur, lloc, lwake, ctl, shared, mthreads, hist>>

\* A comparison that also saves the frame in which it detects a change.
LoopDiffer_hasty(j) ==
    /\ lpc[j] = "differ"
    /\ IF last_image = NoImage
       THEN /\ LoopRaise(j)
            /\ UNCHANGED <<change_detected_time, status, settled>>
       ELSE /\ IF images_different(last_image, lcur[j])
               THEN /\ change_detected_time' = 0
                    /\ status' = "change_detected"
                    /\ lpc' = [lpc EXCEPT ![j] = "save"]
                    /\ settled' = 0
               ELSE /\ UNCHANGED <<change_detected_time, status, settled>>
                    /\ lpc' = [lpc EXCEPT ![j] =
                                  IF change_detected_time # None
                                  THEN "elapsed" ELSE "store"]
            /\ UNCHANGED <<lcur, lwake>>
    /\ UNCHANGED <<capture_count, last_image, files, clipboard>>
    /\ UNCHANGED <<lloc, ctl, mthreads, req, scenario>>

\* Lines 388-391: last_image is read again and compared with the frame; a
\* change stamps change_detected_time, no change tests it.  last_image set to
\* None since line 387 makes images_different raise.
LoopDiffer(j) ==
    /\ lpc[j] = "differ"
    /\ IF last_image = NoImage
       THEN /\ LoopRaise(j)
            /\ UNCHANGED <<change_detected_time, status, settled>>
       ELSE /\ IF images_different(last_image, lcur[j])
               THEN /\ change_detected_time' = 0
                    /\ status' = "change_detected"
                    /\ lpc' = [lpc EXCEPT ![j] = "store"]
                    /\ settled' = 0
               ELSE /\ UNCHANGED <<change_detected_time, status, settled>>
                    /\ lpc' = [lpc EXCEPT ![j] =
                                  IF change_detected_time # None
                                  THEN "elapsed" ELSE "store"]
            /\ UNCHANGED <<lcur, lwake>>
    /\ UNCHANGED <<capture_count, last_image, files, clipboard>>
    /\ UNCHANGED <<lloc, ctl, mthreads, req, scenario>>

\* A test that saves on the first unchanged frame, whatever time has passed.
LoopElapsed_unsettled(j) ==
    /\ lpc[j] = "elapsed"
    /\ IF change_detected_time = None
       THEN LoopRaise(j)
       ELSE /\ lpc' = [lpc EXCEPT ![j] = "save"]
            /\ UNCHANGED <<lcur, lwake>>
    /\ UNCHANGED <<lloc, ctl, shared, mthreads, hist>>

\* Line 392: change_detected_time is read again and the time passed since is
\* tested against settling_time.  change_detected_time set to None since
\* line 391 makes the subtraction raise.
LoopElapsed(j) ==
    /\ lpc[j] = "elapsed"
    /\ IF change_detected_time = None
       THEN LoopRaise(j)
       ELSE /\ lpc' = [lpc EXCEPT ![j] =
                          IF change_detected_time >= settling_time
                          THEN "save" ELSE "store"]
            /\ UNCHANGED <<lcur, lwake>>
    /\ UNCHANGED <<lloc, ctl, shared, mthreads, hist>>

\* save_image (line 393), line 327: the counter is read ...
LoopSaveRead(j) ==
    /\ lpc[j] = "save"
    /\ capture_count < MaxCount
    /\ lloc' = [lloc EXCEPT ![j] = capture_count]
    /\ lpc' = [lpc EXCEPT ![j] = "inc"]
    /\ UNCHANGED <<lcur, lwake, ctl, shared, mthreads, req, scenario>>
    /\ settled' = settled + 1

\* ... and the sum stored.
LoopSaveWrite(j) ==
    /\ lpc[j] = "inc"
    /\ capture_count' = lloc[j] + 1
    /\ lloc' = [lloc EXCEPT ![j] = None]
    /\ lpc' = [lpc EXCEPT ![j] = "persist"]
    /\ UNCHANGED <<last_image, change_detected_time, status, files, clipboard>>
    /\ UNCHANGED <<lcur, lwake, ctl, mthreads, hist>>

\* save_image, lines 328-350.
LoopPersist(j, wrote, copied) ==
    /\ lpc[j] = "persist"
    /\ save_files(wrote, copied)
    /\ lpc' = [lpc EXCEPT ![j] = "clear"]
    /\ UNCHANGED <<capture_count, last_image, change_detected_time>>
    /\ UNCHANGED <<lcur, lloc, lwake, ctl, mthreads, hist>>

\* Line 394.
LoopClear(j) ==
    /\ lpc[j] = "clear"
    /\ change_detected_time' = None
    /\ lpc' = [lpc EXCEPT ![j] = "store"]
    /\ UNCHANGED <<capture_count, last_image, status, files, clipboard>>
    /\ UNCHANGED <<lcur, lloc, lwake, ctl, mthreads, hist>>

\* Lines 395 and 398: the frame is stored and the thread sleeps.
LoopStore(j) ==
    /\ lpc[j] = "store"
    /\ last_image' = lcur[j]
    /\ lcur' = [lcur EXCEPT ![j] = NoImage]
    /\ lpc' = [lpc EXCEPT ![j] = "sleep"]
    /\ lwake' = [lwake EXCEPT ![j] = polling_interval]
    /\ UNCHANGED <<capture_count, change_detected_time, status, files, clipboard>>
    /\ UNCHANGED <<lloc, ctl, mthreads, hist>>

\* time.sleep() returns once its time has passed.
LoopWake(j) ==
    /\ lpc[j] \in {"sleep", "retry"}
    /\ lwake[j] = 0
    /\ lpc' = [lpc EXCEPT ![j] = "while"]
    /\ UNCHANGED <<lcur, lloc, lwake, ctl, shared, mthreads, hist>>

\* 0.1 s passes.
Tick ==
    /\ change_detected_time' =
           IF change_detected_time = None THEN None
           ELSE IF change_detected_time < MaxElapsed
           THEN change_detected_time + 1 ELSE change_detected_time
    /\ lwake' = [j \in Loops |-> IF lwake[j] > 0 THEN lwake[j] - 1 ELSE 0]
    /\ UNCHANGED <<capture_count, last_image, status, files, clipboard>>
    /\ scenario' = IF scenario.t = None \/ scenario.t >= MaxClock THEN scenario
                    ELSE [scenario EXCEPT !.t = @ + 1]
    /\ UNCHANGED <<lpc, lcur, lloc, ctl, mthreads, req, settled>>

\* -------------------------------------------------------- specifications

\* The request-dispatch actor: every request of the control surface with
\* every parameter value, and the hotkey.  The threads it starts take their
\* steps in SpecManual and SpecAuto; none of their steps writes a field a
\* request handler reads before it writes, but for capture_count.
Requests ==
    \/ \E wid \in WindowReq : ApiSelectWindow(wid)
    \/ \E m \in CaptureModeReq : ApiCaptureMode(m)
    \/ \E r \in {NoRegion, SelectedRegion} : ApiSelectRegion(r)
    \/ \E m \in ModeReq : ApiMode(m)
    \/ \E m \in SaveModeReq : ApiSaveMode(m)
    \/ \E d \in Dirs, bad \in {"none", "settling", "polling", "region"} :
          ApiToggle(d, SettleDefault, PollDefault, ToggleRegion, bad)
    \/ ApiCapture
    \/ ApiReset
    \/ \E picked \in BOOLEAN, d \in Dirs : ApiSelectFolder(picked, d)

Next == Requests \/ keyboard_callback

Spec == Init /\ [][Next]_vars

\* The manual_capture threads, with the requests that arm the scheduler and
\* those that touch the counter.
ManualThread ==
    \E i \in Manual :
        \/ ManualCheck(i)
        \/ \E img \in Frames \cup {NoImage} : ManualCapture(i, img)
        \/ ManualSaveRead(i)
        \/ ManualSaveWrite(i)
        \/ \E wrote, copied \in BOOLEAN : ManualPersist(i, wrote, copied)

NextManual ==
    \/ ApiSelectWindow(1)
    \/ ApiToggle(DefaultDir, SettleDefault, PollDefault, ToggleRegion, "none")
    \/ ApiCapture
    \/ keyboard_callback
    \/ ApiReset
    \/ ManualThread

SpecManual == Init /\ [][NextManual]_vars

\* The auto_monitor_loop threads, with the requests that start and stop them.
LoopStep(j) ==
    \/ LoopWhile(j)
    \/ \E img \in Frames \cup {NoImage} : LoopCapture(j, img)
    \/ LoopCompare(j)
    \/ LoopDiffer(j)
    \/ LoopElapsed(j)
    \/ LoopSaveRead(j)
    \/ LoopSaveWrite(j)
    \/ LoopPersist(j, TRUE, TRUE)
    \/ LoopClear(j)
    \/ LoopStore(j)
    \/ LoopWake(j)

LoopThread == \E j \in Loops : LoopStep(j)

NextAuto ==
    \/ ApiSelectWindow(1)
    \/ ApiMode("auto")
    \/ ApiToggle(DefaultDir, SettleDefault, PollDefault, ToggleRegion, "none")
    \/ LoopThread
    \/ Tick

SpecAuto == Init /\ [][NextAuto]_vars

\* The same with the scheduling the threads get: time passes, and a polling
\* thread that can take a step takes one.
SpecAutoFair ==
    SpecAuto /\ WF_vars(Tick) /\ \A j \in Loops : WF_vars(LoopStep(j))

\* The polling threads with both scheduling modes: sessions of manual and of
\* auto mode follow one another.
NextModes ==
    \/ ApiSelectWindow(1)
    \/ \E m \in {"manual", "auto"} : ApiMode(m)
    \/ ApiToggle(DefaultDir, SettleDefault, PollDefault, ToggleRegion, "none")
    \/ LoopThread
    \/ Tick

SpecModes == Init /\ [][NextModes]_vars

\* The polling threads in front of a scene that does not change: every
\* capture that succeeds returns StillFrame.
StillFrame == Frame(20, 10, 0, 0, 0)

StillStep(j) ==
    \/ LoopWhile(j)
    \/ \E img \in {StillFrame, NoImage} : LoopCapture(j, img)
    \/ LoopCompare(j)
    \/ LoopDiffer(j)
    \/ LoopStore(j)
    \/ LoopWake(j)

NextStill ==
    \/ ApiSelectWindow(1)
    \/ ApiMode("auto")
    \/ ApiToggle(DefaultDir, SettleDefault, PollDefault, ToggleRegion, "none")
    \/ \E j \in Loops : StillStep(j)
    \/ Tick

SpecStill == Init /\ [][NextStill]_vars

\* ------------------------------------------------------- the timed run

\* The frame of Frames that is not img.
OtherFrame(img) == CHOOSE f \in Frames : f # img

\* What the screen shows t ticks into the timed run: the frames of t = 0, 2
\* and 4 each differ from the one before, and from t = 4 on the screen keeps
\* its content.
ScenarioFrame(t) ==
    IF t \in PollDefault .. 2 * PollDefault - 1
    THEN OtherFrame(scenario.first) ELSE scenario.first

\* Auto capture of window 1 is running with the default settle time and poll
\* interval (5 and 2 ticks), the polling thread is about to poll, and the
\* clock starts.  The frame polled before, if there was one, differs from the
\* first frame of the run.
InitScenario ==
    \E first \in Frames, fresh \in BOOLEAN, fs \in {InitialFiles, [d \in Dirs |-> {}]},
       sm \in {"folder", "clipboard", "both"} :
        /\ capture_mode = "window"
        /\ target_window_id = 1
        /\ region = NoRegion
        /\ save_dir = DefaultDir
        /\ save_mode = sm
        /\ is_running = TRUE
        /\ mode = "auto"
        /\ last_image = IF fresh THEN NoImage ELSE OtherFrame(first)
        /\ change_detected_time = None
        /\ status = "monitoring"
        /\ settling_time = SettleDefault
        /\ polling_interval = PollDefault
        /\ files = fs
        /\ clipboard = NoClip
        /\ capture_count = init_capture_count(fs[DefaultDir])
        /\ mpc = [i \in Manual |-> "idle"]
        /\ mloc = [i \in Manual |-> None]
        /\ lpc = [j \in Loops |-> IF IsFreeSlot([k \in Loops |-> "dead"], "dead", Loops, j)
                                 THEN "while" ELSE "dead"]
        /\ lcur = [j \in Loops |-> NoImage]
        /\ lloc = [j \in Loops |-> None]
        /\ lwake = [j \in Loops |-> 0]
        /\ req = "/api/toggle"
        /\ settled = 0
        /\ scenario = [t |-> 0, count |-> init_capture_count(fs[DefaultDir]),
                       first |-> first]

\* Time passes only while the polling thread sleeps: a poll takes no time and
\* the thread wakes as soon as its sleep is over.
ScenarioTick ==
    /\ scenario.t < MaxClock
    /\ \A j \in Loops : lpc[j] # "dead" => lpc[j] = "sleep" /\ lwake[j] > 0
    /\ Tick

\* The polling thread over the frames of the timed run.
ScenarioStep(j) ==
    \/ LoopWhile(j)
    \/ LoopCapture(j, ScenarioFrame(scenario.t))
    \/ LoopCompare(j)
    \/ LoopDiffer(j)
    \/ LoopElapsed(j)
    \/ LoopSaveRead(j)
    \/ LoopSaveWrite(j)
    \/ \E wrote, copied \in BOOLEAN : LoopPersist(j, wrote, copied)
    \/ LoopClear(j)
    \/ LoopStore(j)
    \/ LoopWake(j)

NextScenario == (\E j \in Loops : ScenarioStep(j)) \/ ScenarioTick

SpecScenario == InitScenario /\ [][NextScenario]_vars

\* ---------------------------------------------------- seeding at startup

\* The largest number among the numbered files a directory holds at startup.
MaxSeed == 2

\* slide_0001.png, slide_0002.png, ...
SlideNames == {Format04(n) : n \in 1 .. MaxSeed}

\* Other names the pattern slide_*.png matches: slide_a.png,
\* slide_0002_a.png, slide_-2.png and slide_2.png.
StrayNames == {<<Letter>>, <<0, 0, 0, 2, Underscore, Letter>>, <<Minus, 2>>, <<2>>}

\* The process starts over any of these contents of the default directory.
InitSeed ==
    \E names \in SUBSET (SlideNames \cup StrayNames) :
        AppState([d \in Dirs |-> IF d = DefaultDir THEN names ELSE {}], 0, "boot")

\* main(), lines 909-910: the counter is seeded from the save directory
\* before the server accepts a request.
main ==
    /\ req = "boot"
    /\ capture_count' = init_capture_count(files[save_dir])
    /\ req' = "none"
    /\ UNCHANGED <<last_image, change_detected_time, status, files, clipboard>>
    /\ UNCHANGED <<ctl, mthreads, lthreads, settled, scenario>>

\* The server is up (line 931).
Serving == req # "boot"

\* Startup, then manual captures one after the other into the seeded
\* directory.
NextSeed ==
    \/ main
    \/ Serving /\ ApiSelectWindow(1)
    \/ Serving /\ ApiToggle(DefaultDir, SettleDefault, PollDefault, ToggleRegion, "none")
    \/ Serving /\ (\A i \in Manual : mpc[i] = "idle") /\ ApiCapture
    \/ ManualThread

SpecSeed == InitSeed /\ [][NextSeed]_vars

\* ------------------------------------------ manual capture in either mode

\* The manual_capture threads with the requests that select the target, the
\* capture mode and the mode, start and stop, and ask for a capture.  The
\* polling threads a start in auto mode creates take their steps in SpecAuto.
NextAnyMode ==
    \/ ApiSelectWindow(1)
    \/ \E m \in CaptureModeReq : ApiCaptureMode(m)
    \/ \E m \in {"manual", "auto"} : ApiMode(m)
    \/ ApiToggle(DefaultDir, SettleDefault, PollDefault, ToggleRegion, "none")
    \/ ApiCapture
    \/ keyboard_callback
    \/ ManualThread

SpecAnyMode == Init /\ [][NextAnyMode]_vars

\* ------------------------------------------------- the persistence sink

\* save_image in every save mode, with writes that succeed and writes that
\* fail: manual captures one after the other, and the requests that select
\* the window and the save mode and start and stop.
NextSave ==
    \/ ApiSelectWindow(1)
    \/ \E m \in SaveModeReq : ApiSaveMode(m)
    \/ ApiToggle(DefaultDir, SettleDefault, PollDefault, ToggleRegion, "none")
    \/ (\A i \in Manual : mpc[i] = "idle") /\ ApiCapture
    \/ ManualThread

SpecSave == Init /\ [][NextSave]_vars

\* ------------------------------------------- the change detector alone

\* Frames of 200 pixels (600 samples, of which 3 are 0.5 percent) in two
\* shapes, with 0, 1, 3 or 4 lit samples in each band.
DetectorFrames ==
    {Frame(sz[1], sz[2], r, g, b) :
        sz \in {<<20, 10>>, <<10, 20>>}, r \in {0, 1, 3, 4}, g \in {0, 1, 3, 4},
        b \in {0, 1, 3, 4}}

\* Auto capture of window 1 is running and the polling thread has captured
\* img2 after img1 (lines 383-386): it is about to compare them.
InitDetector ==
    \E img1 \in DetectorFrames, img2 \in DetectorFrames :
        /\ capture_mode = "window"
        /\ target_window_id = 1
        /\ region = NoRegion
        /\ save_dir = DefaultDir
        /\ save_mode = "folder"
        /\ is_running = TRUE
        /\ mode = "auto"
        /\ last_image = img1
        /\ change_detected_time = None
        /\ status = "monitoring"
        /\ settling_time = SettleDefault
        /\ polling_interval = PollDefault
        /\ files = InitialFiles
        /\ clipboard = NoClip
        /\ capture_count = init_capture_count(InitialFiles[DefaultDir])
        /\ mpc = [i \in Manual |-> "idle"]
        /\ mloc = [i \in Manual |-> None]
        /\ lpc = [j \in Loops |-> IF IsFreeSlot([k \in Loops |-> "dead"], "dead", Loops, j)
                                 THEN "compare" ELSE "dead"]
        /\ lcur = [j \in Loops |-> IF IsFreeSlot([k \in Loops |-> "dead"], "dead", Loops, j)
                                  THEN img2 ELSE NoImage]
        /\ lloc = [j \in Loops |-> None]
        /\ lwake = [j \in Loops |-> 0]
        /\ req = "/api/toggle"
        /\ settled = 0
        /\ scenario = NoScenario

\* The comparison of line 388.
NextDetector == \E j \in Loops : LoopCompare(j) \/ LoopDiffer(j)

SpecDetector == InitDetector /\ [][NextDetector]_vars

\* ------------------------------------------------------------------ claims

\* The target of the current capture mode is set (lines 402-405, 366-369).
TargetSet ==
    \/ capture_mode = "window" /\ HasWindow
    \/ capture_mode = "region" /\ HasRegion(region)

\* C1: a start request never makes is_running true without a target for the
\* current capture mode: every step that turns is_running on ends in a state
\* whose capture mode has its target set.
C1_StartNeedsTarget == [][(~is_running /\ is_running') => TargetSet']_vars

\* C7: while is_running is true no step changes the capture target:
\* target_window_id, region and capture_mode keep their values.
C7_TargetFixedWhileRunning ==
    [][is_running => UNCHANGED <<target_window_id, region, capture_mode>>]_vars

\* C8: a set-mode, set-save-mode or set-capture-mode request handled while
\* is_running is true leaves mode, save_mode and capture_mode as they were.
C8_ModeRequestsRejectedWhileRunning ==
    [][(/\ is_running
        /\ \/ \E m \in ModeReq : ApiMode(m)
           \/ \E m \in SaveModeReq : ApiSaveMode(m)
           \/ \E m \in CaptureModeReq : ApiCaptureMode(m))
       => UNCHANGED <<mode, save_mode, capture_mode>>]_vars

\* A set-mode, set-save-mode or set-capture-mode request was the last one
\* handled and the scheduler is running: it was handled after the start.
C8_Witness ==
    /\ is_running
    /\ req \in {"/api/mode", "/api/save_mode", "/api/capture_mode"}

\* C9: no step decreases capture_count.
C9_CountNeverDecreases == [][capture_count' >= capture_count]_vars

\* Call i of manual_capture is in flight: between its do_capture call
\* (line 372) and the end of save_image.
InFlight(i) == mpc[i] \in {"capture", "save", "inc", "persist"}

\* Call i of manual_capture has executed a capture: do_capture returned an
\* image to it and it has not returned yet.
Captured(i) == mpc[i] \in {"save", "inc", "persist"}

\* C2: of two manual_capture calls in progress at the same time in the Armed
\* state only one executes a capture and advances the counter: the two never
\* both hold a captured frame.
C2_OneCaptureForTwoCalls ==
    (is_running /\ mode = "manual")
        => ~(\E i, k \in Manual : i # k /\ Captured(i) /\ Captured(k))

\* C3: at most one manual capture is in flight.
C3_OneManualInFlight == Cardinality({i \in Manual : InFlight(i)}) <= 1

\* C4: between one observed change and the next the polling loop persists at
\* most one frame: save_image is called at most once after a change was
\* detected, until the next change is detected.
C4_OneSavePerStableInterval == settled <= 1

\* C5: in auto mode a detected change that no save has followed leads to a
\* save by the polling loop, unless the scheduler is stopped, a later capture
\* is unavailable (the loop is in the sleep of line 385) or a later frame
\* differs again (the timestamp is taken anew); the counter's bound ends the
\* model's run.
C5_ChangeLeadsToSave ==
    (/\ is_running
     /\ mode = "auto"
     /\ change_detected_time # None
     /\ change_detected_time >= 1
     /\ settled = 0)
    ~> (\/ settled >= 1
        \/ ~is_running
        \/ change_detected_time = 0
        \/ \E j \in Loops : lpc[j] = "retry"
        \/ capture_count >= MaxCount)

\* C6: with settle 5 ticks and poll 2 ticks, frames that change at t = 0, 2
\* and 4 and stay the same from t = 4 on: no save before the poll of t = 10
\* (none at t = 6, none at t = 8), one save_image call at the poll of t = 10,
\* and from the end of that poll on the counter is one above its value at
\* the start.
C6_SaveAtTenTicks ==
    LET t == scenario.t
        saved == capture_count - scenario.count
        polled == \E j \in Loops :
                      \/ lpc[j] \in {"clear", "store"}
                      \/ (lpc[j] = "sleep" /\ lwake[j] > 0)
    IN t # None =>
          /\ t < 10 => saved = 0 /\ settled = 0
          /\ t = 10 => settled \in {0, 1} /\ saved \in {0, settled}
          /\ (t > 10 \/ (t = 10 /\ polled)) => saved = 1 /\ settled = 1

C6_Witness ==
    /\ scenario.t = 12
    /\ capture_count = scenario.count + 1
    /\ \E j \in Loops : lpc[j] = "sleep"

\* A numbered file slide_NNNN.png, the numbers of a directory's numbered
\* files and the largest of them (0 without one).
IsSlideName(rest) == Len(rest) >= 4 /\ IsDigits(rest)
SlideNumbers(names) == {DigitsValue(f) : f \in {g \in names : IsSlideName(g)}}
MaxNumber(names) ==
    IF SlideNumbers(names) = {} THEN 0
    ELSE CHOOSE m \in SlideNumbers(names) : \A n \in SlideNumbers(names) : n <= m

\* C10: after the seeding at startup over a directory of files
\* slide_NNNN.png the counter is the largest NNNN present, 0 without a file;
\* and a save into the seeded directory, whatever else slide_*.png matches
\* there, uses a number above every numbered file's and a file name the
\* directory does not hold.
C10_SeedAboveExisting ==
    LET names == files[save_dir]
    IN /\ (req = "none" /\ \A f \in names : IsSlideName(f))
             => capture_count = MaxNumber(names)
       /\ \A i \in Manual :
             mpc[i] = "persist" =>
                /\ Format04(capture_count) \notin names
                /\ \A n \in SlideNumbers(names) : n < capture_count

C10_Witness ==
    \E i \in Manual :
        /\ mpc[i] = "persist"
        /\ Format04(MaxSeed) \in files[save_dir]
        /\ capture_count = MaxSeed + 1

\* C11: a polling loop that is alive when is_running is false exits: it
\* reaches the end of auto_monitor_loop, whatever requests follow the stop
\* (the counter's bound ends the model's run).
C11_StoppedLoopExits ==
    \A j \in Loops :
        (lpc[j] # "dead" /\ ~is_running)
            ~> (lpc[j] = "dead" \/ capture_count >= MaxCount)

\* C12: while is_running is false no save_image begins: no manual_capture
\* thread and no polling loop takes the step of line 327 in a state where
\* the scheduler is stopped.
C12_NoSaveWhileStopped ==
    [][/\ \A i \in Manual : (mpc[i] = "save" /\ mpc'[i] = "inc") => is_running
       /\ \A j \in Loops : (lpc[j] = "save" /\ lpc'[j] = "inc") => is_running]_vars

\* C13: manual_capture persists nothing while the scheduler is polling: no
\* manual_capture thread takes the step of line 327 (the counter's
\* increment, first statement of save_image) in a state where is_running is
\* true and mode is auto.
C13_ManualOnlyWhenArmed ==
    [][\A i \in Manual :
          (mpc[i] = "save" /\ mpc'[i] = "inc") => ~(is_running /\ mode = "auto")]_vars

\* C14: a manual_capture that runs while is_running is false, or while the
\* target of the current capture mode is unset, returns failure without a
\* frame: the thread ends at its checks (lines 363-371), or at line 376 when
\* do_capture has no target to capture, and no field but status changes.
C14_ManualFailsUnarmed ==
    [][\A i \in Manual :
          /\ (/\ mpc[i] = "check"
              /\ mpc'[i] # "check"
              /\ \/ ~is_running
                 \/ capture_mode = "window" /\ ~HasWindow
                 \/ capture_mode = "region" /\ ~HasRegion(region))
                => /\ mpc'[i] = "idle"
                   /\ status' \in {"err_not_started", "err_no_window", "err_no_region"}
                   /\ UNCHANGED <<ctl, capture_count, last_image,
                                  change_detected_time, files, clipboard>>
          /\ (mpc[i] = "capture" /\ mpc'[i] # "capture" /\ ~TargetSet)
                => /\ mpc'[i] = "idle"
                   /\ status' = "err_capture_failed"
                   /\ UNCHANGED <<ctl, capture_count, last_image,
                                  change_detected_time, files, clipboard>>]_vars

C14_Witness ==
    /\ status = "err_not_started"
    /\ ~is_running
    /\ \A i \in Manual : mpc[i] = "idle"

\* A manual_capture thread returns from save_image.
SaveReturns(i) == mpc[i] = "persist" /\ mpc'[i] = "idle"

\* C15: in save mode both a save_image call attempts both channels: the
\* clipboard write is attempted (the slide is on the pasteboard, or the
\* status reports the failed copy) also when the folder write fails, and the
\* file is written also when the clipboard write fails.
C15_ChannelsIndependent ==
    [][\A i \in Manual :
          (SaveReturns(i) /\ save_mode = "both")
              => /\ \/ clipboard' = Format04(capture_count)
                    \/ status' = "saved_copy_failed"
                 /\ status' = "saved_copy_failed"
                       => Format04(capture_count) \in files'[save_dir]]_vars

\* C16: save_image advances the counter by exactly 1 before it writes, and
\* keeps it when a write fails: the step of line 327 adds 1 and writes
\* neither the folder nor the pasteboard, and the rest of save_image, with
\* either write failing or not, leaves the counter as it is.
C16_CounterAdvancesFirst ==
    [][\A i \in Manual :
          /\ (mpc[i] = "inc" /\ mpc'[i] = "persist")
                => /\ capture_count' = capture_count + 1
                   /\ UNCHANGED <<files, clipboard>>
          /\ mpc[i] \in {"save", "inc"} => UNCHANGED <<files, clipboard>>
          /\ SaveReturns(i) => capture_count' = capture_count]_vars

\* A save_image call has returned after a folder write that failed: the
\* counter is above the numbers of the files.
C16_Witness ==
    /\ capture_count = init_capture_count(files[save_dir]) + 1
    /\ save_mode \in {"folder", "both"}
    /\ \A i \in Manual : mpc[i] = "idle"

\* C17: a start request through /api/toggle that start_capture rejects for
\* a missing target changes no field but status: save_dir, settling_time,
\* polling_interval, region, mode, capture_count and is_running are after
\* the request what they were before it.
C17_RejectedStartChangesNothing ==
    [][(/\ req' = "/api/toggle"
        /\ ~is_running
        /\ ~TargetSet
        /\ status' \in {"err_select_window", "err_select_region"})
          => UNCHANGED <<save_dir, settling_time, polling_interval, region,
                         mode, capture_count, is_running>>]_vars

\* C18: in every reachable state is_running implies that the target of the
\* current capture mode is set: target_window_id in window mode, region in
\* region mode.
C18_RunningHasTarget == is_running => TargetSet

\* The samples of img1 and img2 that differ, over the three bands.
DifferingSamples(img1, img2) ==
    Abs(img1.lit[1] - img2.lit[1]) + Abs(img1.lit[2] - img2.lit[2])
        + Abs(img1.lit[3] - img2.lit[3])

\* C19: images_different is true exactly when the frames differ in size, or
\* the differing samples of the three bands are more than 0.5 percent of
\* width * height * 3 (not at exactly 0.5 percent): the comparison of line
\* 388 records a change exactly then.
C19_ChangeAboveHalfPercent ==
    [][\A j \in Loops :
          (lpc[j] = "differ" /\ lpc'[j] # "differ")
              => ((change_detected_time' = 0) <=>
                    \/ last_image.size # lcur[j].size
                    \/ DifferingSamples(last_image, lcur[j]) * 1000
                          > DIFF_THRESHOLD_X10
                              * (last_image.size[1] * last_image.size[2] * 3))]_vars

\* C20: in every reachable state mode is manual or auto, save_mode is
\* folder, clipboard or both, and capture_mode is window or region.
C20_ModesAreValid ==
    /\ mode \in {"manual", "auto"}
    /\ save_mode \in {"folder", "clipboard", "both"}
    /\ capture_mode \in {"window", "region"}

\* C21: target_window_id changes only in a /api/select_window request and
\* only to an id get_window_list enumerates: for id 0 and for an id that is
\* not enumerated no step changes the selected target.
C21_SelectOnlyEnumerated ==
    [][target_window_id' # target_window_id
          => /\ req' = "/api/select_window"
             /\ target_window_id' \in Windows
             /\ status' = "selected"]_vars

\* A select request has set the target to the second enumerated window.
C21_Witness ==
    /\ req = "/api/select_window"
    /\ target_window_id \in Windows
    /\ target_window_id # 1

\* C22: a stop changes is_running and status only: capture_count,
\* target_window_id, region, capture_mode, mode, save_mode and save_dir are
\* after stop_capture what they were before, and the start that follows
\* leaves the counter where the stop left it.
C22_StopKeepsSession ==
    [][/\ (is_running /\ ~is_running')
            => /\ status' = "stopped"
               /\ UNCHANGED <<capture_count, target_window_id, region,
                              capture_mode, mode, save_mode, save_dir>>
       /\ (~is_running /\ is_running') => capture_count' = capture_count]_vars

\* The scheduler was stopped after a window was selected and a start.
C22_Witness ==
    /\ ~is_running
    /\ status = "stopped"
    /\ req = "/api/toggle"
    /\ HasWindow
    /\ capture_count >= 1

\* C23: without a counter reset no increment is lost and no sequence number
\* is used twice: the step of line 327 of every save_image call, by a
\* manual_capture thread or a polling loop, leaves the counter one above
\* what it was, and the file name a call formats (line 328) is not the name
\* of a file the directory already holds.
C23_NoLostIncrementNoReuse ==
    [][/\ \A i \in Manual :
             /\ (mpc[i] = "inc" /\ mpc'[i] = "persist")
                   => capture_count' = capture_count + 1
             /\ SaveReturns(i) => Format04(capture_count) \notin files[save_dir]
       /\ \A j \in Loops :
             /\ (lpc[j] = "inc" /\ lpc'[j] = "persist")
                   => capture_count' = capture_count + 1
             /\ (lpc[j] = "persist" /\ lpc'[j] = "clear")
                   => Format04(capture_count) \notin files[save_dir]]_vars

\* C24: the polling loop goes on to save_image only from the test of the
\* settle time, with a change timestamp pending and at least settling_time
\* passed since it; that test is reached only from a comparison in which the
\* frame equals the stored one; a comparison that detects a change takes the
\* timestamp anew and goes on to store the frame, and save_image is entered
\* from nowhere else.
C24_SaveOnlyWhenSettled ==
    [][\A j \in Loops :
          /\ (lpc[j] = "elapsed" /\ lpc'[j] = "save")
                => /\ change_detected_time # None
                   /\ change_detected_time >= settling_time
          /\ (lpc[j] # "elapsed" /\ lpc'[j] = "elapsed")
                => /\ lpc[j] = "differ"
                   /\ last_image # NoImage
                   /\ ~images_different(last_image, lcur[j])
                   /\ change_detected_time # None
          /\ (/\ lpc[j] = "differ"
              /\ lpc'[j] # "differ"
              /\ last_image # NoImage
              /\ images_different(last_image, lcur[j]))
                => /\ lpc'[j] = "store"
                   /\ change_detected_time' = 0
                   /\ UNCHANGED <<capture_count, files, clipboard>>
          /\ (lpc[j] # "save" /\ lpc'[j] = "save") => lpc[j] = "elapsed"
          /\ (lpc[j] # "inc" /\ lpc'[j] = "inc") => lpc[j] = "save"]_vars

\* A polling loop is about to call save_image after a settled change.
C24_Witness ==
    \E j \in Loops :
        /\ lpc[j] = "save"
        /\ change_detected_time # None
        /\ change_detected_time >= settling_time

\* The scheduler is armed: running in manual mode.
Armed == is_running /\ mode = "manual"

\* C25: a start in manual mode sets the armed status, starts no polling
\* thread and leaves last_image and change_detected_time alone; a start in
\* auto mode sets last_image and change_detected_time to None and starts one
\* polling thread; and while the scheduler is armed no polling thread is
\* alive.
C25_StartByMode ==
    [][/\ (~is_running /\ is_running' /\ mode = "manual")
             => /\ status' = "armed"
                /\ lpc' = lpc
                /\ UNCHANGED <<last_image, change_detected_time>>
       /\ (~is_running /\ is_running' /\ mode = "auto")
             => /\ last_image' = NoImage
                /\ change_detected_time' = None
                /\ Cardinality({j \in Loops : lpc[j] # lpc'[j]}) = 1
                /\ \A j \in Loops :
                      lpc[j] # lpc'[j] => lpc[j] = "dead" /\ lpc'[j] = "while"
       /\ Armed' => \A j \in Loops : lpc'[j] = "dead"]_vars

\* C26: an iteration whose capture returns None changes none of last_image,
\* change_detected_time, capture_count, status and the saved files; the
\* thread sleeps the second of line 385 and goes back to the loop condition.
C26_FailedCaptureChangesNothing ==
    [][\A j \in Loops :
          /\ (lpc[j] = "capture" /\ lpc'[j] # "compare" /\ lpc'[j] # "capture")
                => /\ lpc'[j] = "retry"
                   /\ lwake'[j] = RetrySleep
                   /\ UNCHANGED shared
          /\ (lpc[j] = "retry" /\ lpc'[j] # "retry")
                => /\ lpc'[j] = "while"
                   /\ UNCHANGED shared]_vars

\* A polling thread is in the sleep of line 385 with a frame stored and a
\* change pending.
C26_Witness ==
    \E j \in Loops :
        /\ lpc[j] = "retry"
        /\ last_image # NoImage
        /\ change_detected_time # None

\* C27: an iteration whose capture succeeded reaches its sleep only through
\* line 395, which stores the frame captured in that iteration as last_image.
C27_FrameStoredEachIteration ==
    [][\A j \in Loops :
          (lpc[j] \notin {"sleep", "retry"} /\ lpc'[j] = "sleep")
              => /\ lpc[j] = "store"
                 /\ lcur[j] # NoImage
                 /\ last_image' = lcur[j]]_vars

\* C28: at most one polling thread is alive.
C28_OnePollingThread == Cardinality({j \in Loops : lpc[j] # "dead"}) <= 1

\* C29: in front of a scene that does not change no polling thread, of this
\* session or of an earlier one, records a change, tests the settle time or
\* enters save_image: the counter and the files stay as they were at startup.
C29_StillSceneNeverSaves ==
    /\ change_detected_time = None
    /\ capture_count = init_capture_count(InitialFiles[DefaultDir])
    /\ files = InitialFiles
    /\ clipboard = NoClip
    /\ \A j \in Loops : lpc[j] \notin {"elapsed", "save", "inc", "persist", "clear"}

\* A polling thread compares a later frame of the still scene with the stored
\* one.
C29_Witness ==
    /\ is_running
    /\ last_image = StillFrame
    /\ \E j \in Loops : lpc[j] = "differ" /\ lcur[j] = StillFrame

====
